---- MODULE Spec2Model ----
(***************************************************************************)
(* A model of the prefix tree of src/src/lib.rs: TNode, Trie and the       *)
(* operations insert, insert_iter, contains, delete, delete_2 and clear.   *)
(* A node is a record [value, is_end, children], children being a function *)
(* from the characters that have a child to the child nodes (the HashMap). *)
(* A word is a sequence of characters.                                     *)
(***************************************************************************)
EXTENDS Naturals, Sequences, FiniteSets

VARIABLES root, prev, op, arg, inserted, live, trieA, trieB

vars == <<root, prev, op, arg, inserted, live, trieA, trieB>>

mainVars == <<root, prev, op, arg, inserted, live>>

pairVars == <<trieA, trieB>>

\* ---------------------------------------------------------------- bounds

\* The longest word passed to an operation.
MaxLen == 2

\* The number of distinct non-empty words a caller keeps inserted at a time
\* (Spec), or ever inserts (SpecHist).
MaxWords == 2

\* The character domain of the words.
Chars == {"a", "b"}

\* The value of the root sentinel, '\0'.
NUL == "NUL"

Words == UNION {[1..n -> Chars] : n \in 0..MaxLen}

NoWord == <<>>

\* ------------------------------------------------------------------ TNode

NoChildren == [c \in {} |-> c]

TNode(value, is_end) ==
    [value |-> value, is_end |-> is_end, children |-> NoChildren]

get(node, key) == node.children[key]

has(node, ch) == ch \in DOMAIN node.children

\* Mutant of is_empty: the end flag is not looked at.
is_empty_ignores_end(node) == DOMAIN node.children = {}

is_empty(node) == ~node.is_end /\ DOMAIN node.children = {}

\* HashMap::insert / the write through the &mut of an entry.
put(children, key, child) ==
    [c \in DOMAIN children \cup {key} |-> IF c = key THEN child ELSE children[c]]

\* HashMap::remove.
remove(children, key) ==
    [c \in DOMAIN children \ {key} |-> children[c]]

\* Mutant of entry_or_insert: a created node is marked as an end.
entry_or_insert_as_end(node, ch) ==
    IF has(node, ch) THEN get(node, ch) ELSE TNode(ch, TRUE)

\* Mutant of entry_or_insert: an existing child is replaced by a new node.
entry_or_insert_always_new(node, ch) == TNode(ch, FALSE)

\* Mutant of entry_or_insert: a created node carries the sentinel value.
entry_or_insert_sentinel_value(node, ch) ==
    IF has(node, ch) THEN get(node, ch) ELSE TNode(NUL, FALSE)

\* entry(ch).or_insert_with(|| TNode::new(ch, false))
entry_or_insert(node, ch) ==
    IF has(node, ch) THEN get(node, ch) ELSE TNode(ch, FALSE)

\* ------------------------------------------------------------------- Trie

new == TNode(NUL, FALSE)

\* Mutant of insert_rec: the end flag of the terminal node is flipped, not set.
RECURSIVE insert_rec_toggle_end(_, _)
insert_rec_toggle_end(node, word) ==
    IF word # <<>>
    THEN LET current_ch == Head(word)
             next_node  == entry_or_insert(node, current_ch)
         IN  [node EXCEPT !.children =
                 put(node.children, current_ch,
                     insert_rec_toggle_end(next_node, Tail(word)))]
    ELSE [node EXCEPT !.is_end = ~node.is_end]

RECURSIVE insert_rec(_, _)
insert_rec(node, word) ==
    IF word # <<>>
    THEN LET current_ch == Head(word)
             next_node  == entry_or_insert(node, current_ch)
         IN  [node EXCEPT !.children =
                 put(node.children, current_ch, insert_rec(next_node, Tail(word)))]
    ELSE [node EXCEPT !.is_end = TRUE]

\* Mutant of insert: the empty word is not turned away.
insert_no_empty_check(r, word) == insert_rec(r, word)

insert(r, word) ==
    IF word = <<>> THEN r ELSE insert_rec(r, word)

\* The node the cursor of a loop stands on after walking path from n.
RECURSIVE node_at(_, _)
node_at(n, path) ==
    IF path = <<>> THEN n ELSE node_at(get(n, Head(path)), Tail(path))

\* The tree after the node under the cursor (at path) is overwritten by m.
RECURSIVE write_at(_, _, _)
write_at(n, path, m) ==
    IF path = <<>> THEN m
    ELSE [n EXCEPT !.children =
             put(n.children, Head(path), write_at(get(n, Head(path)), Tail(path), m))]

\* The for loop of insert_iter: i characters consumed, the cursor at word[1..i].
RECURSIVE insert_iter_loop(_, _, _)
insert_iter_loop(r, word, i) ==
    LET path == SubSeq(word, 1, i)
        node == node_at(r, path)
    IN  IF i < Len(word)
        THEN LET current   == word[i + 1]
                 next_node == entry_or_insert(node, current)
                 r1 == write_at(r, path,
                           [node EXCEPT !.children = put(node.children, current, next_node)])
             IN  insert_iter_loop(r1, word, i + 1)
        ELSE write_at(r, path, [node EXCEPT !.is_end = TRUE])

\* Mutant of insert_iter: the empty word is not turned away.
insert_iter_no_empty_check(r, word) == insert_iter_loop(r, word, 0)

insert_iter(r, word) ==
    IF word = <<>> THEN r ELSE insert_iter_loop(r, word, 0)

RECURSIVE contains_loop(_, _)
contains_loop(node, word) ==
    IF word = <<>> THEN node.is_end
    ELSE IF has(node, Head(word))
         THEN contains_loop(get(node, Head(word)), Tail(word))
         ELSE FALSE

contains(r, word) == contains_loop(r, word)

\* Mutants of delete_rec, one per bug:
\*   "always_prune"  the terminal node is reported empty whatever it holds;
\*   "never_prune"   no node is ever reported empty;
\*   "clear_on_miss" where the next character has no child, the end flag of
\*                   the node reached is cleared.;
\*   "toggle_end"    the end flag of the terminal node is flipped, not cleared;
\*   "stop_early"    a node that lost its child is never reported empty.
RECURSIVE delete_rec_with(_, _, _, _)
delete_rec_with(node, word, depth, bug) ==
    LET cleared == IF bug = "toggle_end"
                   THEN [node EXCEPT !.is_end = ~node.is_end]
                   ELSE IF node.is_end THEN [node EXCEPT !.is_end = FALSE] ELSE node
        empty(n) == IF bug = "never_prune" THEN FALSE ELSE is_empty(n)
    IN  IF depth > Len(word) THEN [node |-> node, ret |-> FALSE]
        ELSE IF depth = Len(word)
        THEN [node |-> cleared,
              ret  |-> IF bug = "always_prune" THEN TRUE ELSE empty(cleared)]
        ELSE LET current == word[depth + 1]
             IN  IF has(node, current)
                 THEN LET sub == delete_rec_with(get(node, current), word, depth + 1, bug)
                          n1  == IF sub.ret
                                 THEN [node EXCEPT !.children =
                                          remove(node.children, current)]
                                 ELSE [node EXCEPT !.children =
                                          put(node.children, current, sub.node)]
                      IN  [node |-> n1,
                           ret  |-> IF bug = "stop_early" /\ sub.ret
                                    THEN FALSE ELSE empty(n1)]
                 ELSE IF bug = "clear_on_miss"
                      THEN [node |-> cleared, ret |-> empty(cleared)]
                      ELSE [node |-> node, ret |-> FALSE]

delete_rec_always_prune(node, word, depth) ==
    delete_rec_with(node, word, depth, "always_prune")

delete_rec_never_prune(node, word, depth) ==
    delete_rec_with(node, word, depth, "never_prune")

delete_rec_clear_on_miss(node, word, depth) ==
    delete_rec_with(node, word, depth, "clear_on_miss")

delete_rec_toggle_end(node, word, depth) ==
    delete_rec_with(node, word, depth, "toggle_end")

delete_rec_stop_early(node, word, depth) ==
    delete_rec_with(node, word, depth, "stop_early")

\* delete_rec and deleto_rec mutate the node and return a bool: the result is
\* the pair [node |-> the node afterwards, ret |-> the value returned].
RECURSIVE delete_rec(_, _, _)
delete_rec(node, word, depth) ==
    IF depth > Len(word) THEN [node |-> node, ret |-> FALSE]
    ELSE IF depth = Len(word)
    THEN LET n1 == IF node.is_end THEN [node EXCEPT !.is_end = FALSE] ELSE node
         IN  [node |-> n1, ret |-> is_empty(n1)]
    ELSE LET current == word[depth + 1]
         IN  IF has(node, current)
             THEN LET sub == delete_rec(get(node, current), word, depth + 1)
                      n1  == IF sub.ret
                             THEN [node EXCEPT !.children = remove(node.children, current)]
                             ELSE [node EXCEPT !.children =
                                      put(node.children, current, sub.node)]
                  IN  [node |-> n1, ret |-> is_empty(n1)]
             ELSE [node |-> node, ret |-> FALSE]

delete(r, word) == delete_rec(r, word, 0).node

\* Mutant of deleto_rec: emptiness is tested before the end flag is cleared.
RECURSIVE deleto_rec_test_first(_, _)
deleto_rec_test_first(node, word) ==
    IF word # <<>> /\ has(node, Head(word))
    THEN LET current_ch == Head(word)
             sub == deleto_rec_test_first(get(node, current_ch), Tail(word))
             n1  == IF sub.ret
                    THEN [node EXCEPT !.children = remove(node.children, current_ch)]
                    ELSE [node EXCEPT !.children =
                             put(node.children, current_ch, sub.node)]
         IN  [node |-> n1, ret |-> is_empty(n1)]
    ELSE [node |-> IF node.is_end THEN [node EXCEPT !.is_end = FALSE] ELSE node,
          ret  |-> is_empty(node)]

\* Mutant of deleto_rec: the child walked into is removed whatever it holds.
RECURSIVE deleto_rec_removes_child(_, _)
deleto_rec_removes_child(node, word) ==
    IF word # <<>> /\ has(node, Head(word))
    THEN LET current_ch == Head(word)
             sub == deleto_rec_removes_child(get(node, current_ch), Tail(word))
             n1  == [node EXCEPT !.children = remove(node.children, current_ch)]
         IN  [node |-> n1, ret |-> is_empty(n1)]
    ELSE LET n1 == IF node.is_end THEN [node EXCEPT !.is_end = FALSE] ELSE node
         IN  [node |-> n1, ret |-> is_empty(n1)]

RECURSIVE deleto_rec(_, _)
deleto_rec(node, word) ==
    IF word # <<>> /\ has(node, Head(word))
    THEN LET current_ch == Head(word)
             sub == deleto_rec(get(node, current_ch), Tail(word))
             n1  == IF sub.ret
                    THEN [node EXCEPT !.children = remove(node.children, current_ch)]
                    ELSE [node EXCEPT !.children =
                             put(node.children, current_ch, sub.node)]
         IN  [node |-> n1, ret |-> is_empty(n1)]
    ELSE LET n1 == IF node.is_end THEN [node EXCEPT !.is_end = FALSE] ELSE node
         IN  [node |-> n1, ret |-> is_empty(n1)]

delete_2(r, word) ==
    IF word = <<>> THEN r ELSE deleto_rec(r, word).node

\* Mutant of clear: the children of the root are kept.
clear_keeps_children(r) == [r EXCEPT !.is_end = FALSE]

clear(r) == [r EXCEPT !.children = NoChildren]

\* ------------------------------------------------- the trie under a caller

\* root is the trie; prev, op and arg record the last call (the tree before
\* it, its name and its word); live is the set of non-empty words inserted
\* since the last clear and not passed to delete since.

CanInsert(word) ==
    \/ word = <<>>
    \/ word \in live
    \/ Cardinality(live) < MaxWords

Init ==
    /\ root = new
    /\ prev = new
    /\ op = "new"
    /\ arg = NoWord
    /\ live = {}
    /\ inserted = {}
    /\ trieA = new
    /\ trieB = new

Insert ==
    \E word \in Words :
        /\ CanInsert(word)
        /\ root' = insert(root, word)
        /\ prev' = root
        /\ op' = "insert"
        /\ arg' = word
        /\ live' = live \cup ({word} \ {<<>>})
        /\ UNCHANGED <<inserted, pairVars>>

InsertIter ==
    \E word \in Words :
        /\ CanInsert(word)
        /\ root' = insert_iter(root, word)
        /\ prev' = root
        /\ op' = "insert_iter"
        /\ arg' = word
        /\ live' = live \cup ({word} \ {<<>>})
        /\ UNCHANGED <<inserted, pairVars>>

Delete ==
    \E word \in Words :
        /\ root' = delete(root, word)
        /\ prev' = root
        /\ op' = "delete"
        /\ arg' = word
        /\ live' = live \ {word}
        /\ UNCHANGED <<inserted, pairVars>>

Delete2 ==
    \E word \in Words :
        /\ root' = delete_2(root, word)
        /\ prev' = root
        /\ op' = "delete_2"
        /\ arg' = word
        /\ UNCHANGED <<live, inserted, pairVars>>

Clear ==
    /\ root' = clear(root)
    /\ prev' = root
    /\ op' = "clear"
    /\ arg' = NoWord
    /\ live' = {}
    /\ UNCHANGED <<inserted, pairVars>>

Next == Insert \/ InsertIter \/ Delete \/ Delete2 \/ Clear

Spec == Init /\ [][Next]_vars

\* ------------------------------------- the trie with its insertion history

\* The same calls on root, recording in inserted every word ever passed to
\* insert or insert_iter (clear does not forget them).

CanInsertHist(word) ==
    \/ word = <<>>
    \/ word \in inserted
    \/ Cardinality(inserted \ {<<>>}) < MaxWords

HistInsert ==
    \E word \in Words :
        /\ CanInsertHist(word)
        /\ root' = insert(root, word)
        /\ inserted' = inserted \cup {word}
        /\ UNCHANGED <<prev, op, arg, live, pairVars>>

HistInsertIter ==
    \E word \in Words :
        /\ CanInsertHist(word)
        /\ root' = insert_iter(root, word)
        /\ inserted' = inserted \cup {word}
        /\ UNCHANGED <<prev, op, arg, live, pairVars>>

HistDelete ==
    \E word \in Words :
        /\ root' = delete(root, word)
        /\ UNCHANGED <<inserted, prev, op, arg, live, pairVars>>

HistDelete2 ==
    \E word \in Words :
        /\ root' = delete_2(root, word)
        /\ UNCHANGED <<inserted, prev, op, arg, live, pairVars>>

HistClear ==
    /\ root' = clear(root)
    /\ UNCHANGED <<inserted, prev, op, arg, live, pairVars>>

NextHist == HistInsert \/ HistInsertIter \/ HistDelete \/ HistDelete2 \/ HistClear

SpecHist == Init /\ [][NextHist]_vars

\* ------------------------------------------- a fresh trie that only grows

\* Only insert and insert_iter are called, in any order of the words: every
\* permutation of every set of at most MaxWords words is a behaviour. The
\* last call is recorded in prev, op and arg, the words passed in inserted.

OrderInsert ==
    \E word \in Words :
        /\ CanInsertHist(word)
        /\ root' = insert(root, word)
        /\ prev' = root
        /\ op' = "insert"
        /\ arg' = word
        /\ inserted' = inserted \cup {word}
        /\ UNCHANGED <<live, pairVars>>

OrderInsertIter ==
    \E word \in Words :
        /\ CanInsertHist(word)
        /\ root' = insert_iter(root, word)
        /\ prev' = root
        /\ op' = "insert_iter"
        /\ arg' = word
        /\ inserted' = inserted \cup {word}
        /\ UNCHANGED <<live, pairVars>>

NextOrder == OrderInsert \/ OrderInsertIter

SpecOrder == Init /\ [][NextOrder]_vars

\* ------------------------------------------- two tries, one call sequence

\* trieA and trieB receive the same calls, except that every delete on trieA
\* is a delete_2 on trieB.

PairInsert ==
    \E word \in Words :
        /\ trieA' = insert(trieA, word)
        /\ trieB' = insert(trieB, word)
        /\ UNCHANGED mainVars

PairInsertIter ==
    \E word \in Words :
        /\ trieA' = insert_iter(trieA, word)
        /\ trieB' = insert_iter(trieB, word)
        /\ UNCHANGED mainVars

PairDelete ==
    \E word \in Words :
        /\ trieA' = delete(trieA, word)
        /\ trieB' = delete_2(trieB, word)
        /\ UNCHANGED mainVars

PairClear ==
    /\ trieA' = clear(trieA)
    /\ trieB' = clear(trieB)
    /\ UNCHANGED mainVars

NextPair == PairInsert \/ PairInsertIter \/ PairDelete \/ PairClear

SpecPair == Init /\ [][NextPair]_vars

\* ------------------------------------------------------------- properties

IsStrictPrefix(p, w) ==
    /\ Len(p) < Len(w)
    /\ SubSeq(w, 1, Len(p)) = p

\* path names a node of the tree r.
RECURSIVE path_exists(_, _)
path_exists(n, path) ==
    \/ path = <<>>
    \/ /\ has(n, Head(path))
       /\ path_exists(get(n, Head(path)), Tail(path))

NonEmptyWords == Words \ {<<>>}

Inserts == {"insert", "insert_iter"}

\* C1: a non-empty word is contained right after its insert or insert_iter,
\* and a contained word stays contained over every insert, insert_iter and
\* delete of another word (a prefix or an extension of it included).
C1_InsertedStaysContained ==
    /\ (op \in Inserts /\ arg # <<>>) => contains(root, arg)
    /\ \A W \in NonEmptyWords :
          (op \in Inserts \cup {"delete"} /\ arg # W /\ contains(prev, W))
              => contains(root, W)

\* C1 witness: delete removed a stored extension of a stored word W, pruning
\* the nodes below W.
C1_Witness ==
    /\ op = "delete"
    /\ contains(prev, arg)
    /\ \E W \in NonEmptyWords :
          IsStrictPrefix(W, arg) /\ contains(prev, W) /\ ~path_exists(root, arg)

\* C2: a word never passed to insert or insert_iter is not contained, in
\* particular a strict prefix of an inserted word that was not inserted itself.
C2_NeverInsertedNotContained ==
    \A W \in Words \ inserted : ~contains(root, W)

\* C2 witness: a stored word has a non-empty strict prefix never inserted.
C2_Witness ==
    \E V \in inserted : \E P \in NonEmptyWords \ inserted :
        IsStrictPrefix(P, V) /\ contains(root, V)

\* C3: delete(W) of a stored W that is a strict prefix of a stored V leaves W
\* not contained, V contained, and every node on the path of W in the tree.
C3_DeletePrefixKeepsLonger ==
    \A V \in NonEmptyWords :
        (op = "delete" /\ contains(prev, arg) /\ contains(prev, V)
            /\ IsStrictPrefix(arg, V))
        => /\ ~contains(root, arg)
           /\ contains(root, V)
           /\ \A i \in 1..Len(arg) : path_exists(root, SubSeq(arg, 1, i))

\* C3 witness: delete was called on a stored strict prefix of a stored word.
C3_Witness ==
    /\ op = "delete"
    /\ contains(prev, arg)
    /\ \E V \in NonEmptyWords : IsStrictPrefix(arg, V) /\ contains(prev, V)

\* C4: delete(W) of a word that is not stored leaves the whole tree as it was.
C4_DeleteAbsentIsNoOp ==
    (op = "delete" /\ ~contains(prev, arg)) => root = prev

\* C4 witness: delete was called on a word whose path is only partly present.
C4_Witness ==
    /\ op = "delete"
    /\ Len(arg) = 2
    /\ has(prev, arg[1])
    /\ ~path_exists(prev, arg)

\* A second case of C4: the path is fully present, the terminal not an end.
C4_WitnessNotEnd ==
    /\ op = "delete"
    /\ arg # <<>>
    /\ path_exists(prev, arg)
    /\ ~contains(prev, arg)

\* C5: delete_2(W) of a word that is not stored leaves the whole tree as it
\* was.
C5_Delete2AbsentIsNoOp ==
    (op = "delete_2" /\ ~contains(prev, arg)) => root = prev

\* C6: a trie driven with delete and a trie driven with delete_2 in its place
\* are identical after every step of the same call sequence.
C6_DeleteStrategiesAgree ==
    trieA = trieB

\* C7: once every word inserted since the trie was fresh has been passed to
\* delete, the root has no children.
C7_DeletePrunesToEmptyRoot ==
    live = {} => DOMAIN root.children = {}

\* C7 witness: delete removed the last of the inserted words, a word of more
\* than one character.
C7_Witness ==
    /\ op = "delete"
    /\ contains(prev, arg)
    /\ Len(arg) > 1
    /\ live = {}

\* Every node below n has is_end set or has a child.
RECURSIVE no_empty_below(_)
no_empty_below(n) ==
    \A c \in DOMAIN n.children :
        /\ ~is_empty(n.children[c])
        /\ no_empty_below(n.children[c])

\* C8: after every completed call, no node other than the root is empty.
C8_NoEmptyNode ==
    no_empty_below(root)

\* C8 witness: a delete or delete_2 changed a tree and left nodes in it.
C8_Witness ==
    /\ op \in {"delete", "delete_2"}
    /\ root # prev
    /\ ~path_exists(root, arg)
    /\ DOMAIN root.children # {}

\* C9: the root is never an end, contains("") is false, and insert,
\* insert_iter, delete and delete_2 of the empty word leave the tree as it was.
C9_EmptyWordNeverStored ==
    /\ root.is_end = FALSE
    /\ ~contains(root, <<>>)
    /\ (op \in Inserts \cup {"delete", "delete_2"} /\ arg = <<>>) => root = prev

\* C9 witness: the empty word was passed to an insert on a non-empty trie.
C9_Witness ==
    /\ op \in Inserts
    /\ arg = <<>>
    /\ DOMAIN prev.children # {}

\* C10: after clear the trie equals a fresh one and contains no word.
C10_ClearResets ==
    op = "clear" =>
        /\ root = new
        /\ \A W \in Words : ~contains(root, W)

\* C10 witness: clear was called on a trie that stored a word.
C10_Witness ==
    /\ op = "clear"
    /\ \E W \in Words : contains(prev, W)

\* C11: delete_2(W) of a stored word W leaves W not contained and every other
\* stored word contained, the words sharing a prefix with W included.
C11_Delete2RemovesOnlyIt ==
    (op = "delete_2" /\ contains(prev, arg))
        => /\ ~contains(root, arg)
           /\ \A V \in Words \ {arg} : contains(prev, V) => contains(root, V)

\* C11 witness: delete_2 was called on a stored word while another stored
\* word shared its first character.
C11_Witness ==
    /\ op = "delete_2"
    /\ contains(prev, arg)
    /\ \E V \in NonEmptyWords \ {arg} : contains(prev, V) /\ V[1] = arg[1]

\* C12: delete is idempotent: right after delete(W), stored or not, a second
\* delete(W) leaves the tree exactly as the first left it.
C12_DeleteIdempotent ==
    op = "delete" => delete(root, arg) = root

\* C12 witness: delete removed a stored word whose node stays in the tree.
C12_Witness ==
    /\ op = "delete"
    /\ contains(prev, arg)
    /\ path_exists(root, arg)
    /\ root # prev

\* C13: insert is idempotent: right after insert(W) or insert_iter(W), a
\* second insert(W) or insert_iter(W) creates no node and changes no flag.
C13_InsertIdempotent ==
    op \in Inserts =>
        /\ insert(root, arg) = root
        /\ insert_iter(root, arg) = root

\* C13 witness: an insert created nodes in a tree that already held a word.
C13_Witness ==
    /\ op \in Inserts
    /\ arg # <<>>
    /\ ~path_exists(prev, arg)
    /\ DOMAIN prev.children # {}

IsPrefixEq(p, w) ==
    /\ Len(p) <= Len(w)
    /\ SubSeq(w, 1, Len(p)) = p

\* The tree a set S of non-empty words determines, whatever the order: a node
\* for every prefix of a word of S, an end exactly at the words of S.
RECURSIVE subtree_of(_, _)
subtree_of(S, p) ==
    [value    |-> IF p = <<>> THEN NUL ELSE p[Len(p)],
     is_end   |-> p \in S,
     children |-> [c \in {d \in Chars : \E w \in S : IsPrefixEq(Append(p, d), w)}
                      |-> subtree_of(S, Append(p, c))]]

tree_of(S) == subtree_of(S \ {<<>>}, <<>>)

\* C14: inserting the words of a set into a fresh trie yields, in every order,
\* the one tree the set determines, and it contains exactly the words of the
\* set: no proper prefix that is not in the set, no other string.
C14_InsertionOrderIndependent ==
    /\ root = tree_of(inserted)
    /\ \A W \in Words : contains(root, W) <=> (W \in inserted /\ W # <<>>)

\* C14 witness: a word was inserted after a longer word it is a strict prefix
\* of, the opposite of the order of their lengths.
C14_Witness ==
    /\ op \in Inserts
    /\ arg # <<>>
    /\ ~contains(prev, arg)
    /\ \E V \in inserted : IsStrictPrefix(arg, V) /\ contains(prev, V)

\* The node named by p lies on the path of W and serves no other stored word
\* of the tree r: p is neither another stored word nor a prefix of one.
OnlyServes(r, p, W) ==
    /\ IsPrefixEq(p, W)
    /\ ~\E V \in Words \ {W} : contains(r, V) /\ IsPrefixEq(p, V)

\* C15: delete(W) of a stored word W removes exactly the nodes on W's path
\* that serve no other stored word, and every node it keeps has its value,
\* its end flag (but for W's own node, cleared) and its other children as
\* before.
C15_PruningExact ==
    (op = "delete" /\ contains(prev, arg)) =>
        /\ root.value = prev.value
        /\ root.is_end = prev.is_end
        /\ \A p \in NonEmptyWords :
              /\ path_exists(root, p)
                    <=> (path_exists(prev, p) /\ ~OnlyServes(prev, p, arg))
              /\ path_exists(root, p) =>
                    /\ node_at(root, p).value = node_at(prev, p).value
                    /\ node_at(root, p).is_end
                          = (node_at(prev, p).is_end /\ p # arg)

\* C15 witness: delete pruned the node of W and stopped at its parent, which
\* another stored word kept in the tree.
C15_Witness ==
    /\ op = "delete"
    /\ contains(prev, arg)
    /\ Len(arg) = 2
    /\ ~path_exists(root, arg)
    /\ path_exists(root, <<arg[1]>>)

\* C16: insert(W) or insert_iter(W) of a non-empty W adds one node for each
\* non-empty prefix of W that had none (not an end, but for W's own node),
\* keeps every node there was with its value, and changes no end flag but
\* that of W's node, which it sets.
C16_InsertFrame ==
    (op \in Inserts /\ arg # <<>>) =>
        /\ root.value = prev.value
        /\ root.is_end = prev.is_end
        /\ \A p \in NonEmptyWords :
              /\ path_exists(root, p)
                    <=> (path_exists(prev, p) \/ IsPrefixEq(p, arg))
              /\ path_exists(root, p) =>
                    /\ node_at(root, p).value
                          = IF path_exists(prev, p)
                            THEN node_at(prev, p).value ELSE p[Len(p)]
                    /\ node_at(root, p).is_end
                          = IF p = arg THEN TRUE
                            ELSE IF path_exists(prev, p)
                                 THEN node_at(prev, p).is_end ELSE FALSE

\* C16 witness: an insert reused the node of its first character, the end of
\* a stored word, and created the node of its second.
C16_Witness ==
    /\ op \in Inserts
    /\ Len(arg) = 2
    /\ contains(prev, <<arg[1]>>)
    /\ ~path_exists(prev, arg)

\* C17: insert and insert_iter are interchangeable: whichever of the two was
\* called, on any word (the empty one included), the other one would have
\* left the same tree.
C17_InsertsInterchangeable ==
    /\ op = "insert" => root = insert_iter(prev, arg)
    /\ op = "insert_iter" => root = insert(prev, arg)

\* C17 witness: insert_iter reused the node of its first character and
\* created the node of its second.
C17_Witness ==
    /\ op = "insert_iter"
    /\ Len(arg) = 2
    /\ has(prev, arg[1])
    /\ ~path_exists(prev, arg)

\* Every node below n carries the character it is stored under.
RECURSIVE values_match_keys(_)
values_match_keys(n) ==
    \A c \in DOMAIN n.children :
        /\ n.children[c].value = c
        /\ values_match_keys(n.children[c])

\* C18: after every call, the value of every node other than the root is the
\* character key it is stored under in its parent's children.
C18_ValueIsKey ==
    values_match_keys(root)

\* C18 witness: a delete_2 changed a tree and left a node two characters deep.
C18_Witness ==
    /\ op = "delete_2"
    /\ root # prev
    /\ \E p \in Words : Len(p) = 2 /\ path_exists(root, p)

====
